---- MODULE Spec2Model ----
(***************************************************************************)
(* Noun-phrase extraction of text/np_extractors.py: the two extractors     *)
(* (FastNPExtractor, ConllExtractor with its ChunkParser), their lazy      *)
(* training, tag normalization, the insignificance filter and the two      *)
(* copies of the greedy merge loop (FastNPExtractor.extract and is_match). *)
(*                                                                         *)
(* A tagged token is the Python tuple (word, tag): <<word, tag>>, so t[1]  *)
(* is the word and t[2] the tag.  Words and tags are strings; endswith and *)
(* slicing are computed on the characters.  Python list indices are        *)
(* 0-based: index k of a list is element k + 1 of the sequence.            *)
(*                                                                         *)
(* The program is single-threaded: one call is active at a time, pc says   *)
(* where it stands.  The external toolkit (tokenizers, taggers, the chunk  *)
(* tree, the corpus provider) is the environment: its answers are drawn    *)
(* from bounded sets when the code asks for them.                          *)
(***************************************************************************)
EXTENDS Integers, Sequences, FiniteSets, TLC

\* ------------------------------------------------------------------ bounds
\* Most tokens in the input of FastNPExtractor.extract.
MaxLen == 3
\* Most tokens in one subtree (or most leaves) of a parsed sentence.
MaxChunk == 2
\* Most sentences in the text given to ConllExtractor.extract.
MaxSents == 2
\* Most top-level children met in the parsed sentences of one text.
MaxChildren == 2

VARIABLES
    fast,          \* the FastNPExtractor instance: [trained, TAGGER]
    parser,        \* the ConllExtractor's ChunkParser: [trained, tagger]
    pc,            \* where the running call stands ("idle": none runs,
                   \* "done": it has returned or raised)
    tagged,        \* extract: the tagger's output
    tags,          \* extract: the working list of the merge loop
    x,             \* extract: the scan index of the for loop
    merge,         \* the merge flag of the running merge loop (a local of
                   \* extract and of is_match, never both alive at once)
    sents,         \* ConllExtractor.extract: sentences still to process
    each,          \* the child of the parsed sentence that is_match tests
    copy,          \* is_match: the working list
    i,             \* is_match: the scan index
    phrases,       \* ConllExtractor.extract: this sentence's kept chunks
    noun_phrases,  \* ConllExtractor.extract: the accumulated result
    outcome,       \* how the last finished call ended
    lookup,        \* the corpus provider's answer to train, if the step just
                   \* taken ran train (NoLookup otherwise)
    nkids,         \* history: children met so far in this text
    merges,        \* history: merge steps of the running merge loop
    passes         \* history: scans begun by the running merge loop

vars == <<fast, parser, pc, tagged, tags, x, merge, sents, each, copy, i,
          phrases, noun_phrases, outcome, lookup, nkids, merges, passes>>

\* ---------------------------------------------------------------- strings
None == "None"

\* Python's truth value of a cfg.get result (None and '' are false).
Truthy(value) == value /= None /\ value /= ""

\* str.endswith
endswith(s, suffix) ==
    /\ Len(s) >= Len(suffix)
    /\ SubSeq(s, Len(s) - Len(suffix) + 1, Len(s)) = suffix

\* s[:-n]
DropLast(s, n) == IF Len(s) >= n THEN SubSeq(s, 1, Len(s) - n) ELSE ""

\* dict.get(key, default)
dict_get(d, key, default) == IF key \in DOMAIN d THEN d[key] ELSE default

\* concat.join(words)
RECURSIVE join(_, _)
join(concat, words) ==
    IF words = <<>> THEN ""
    ELSE IF Len(words) = 1 THEN words[1]
    ELSE words[1] \o concat \o join(concat, Tail(words))

\* ------------------------------------------------------------- exceptions
MISSING_CORPUS_MESSAGE ==
    "Looks like you are missing some required data for this feature."

MissingCorpusException ==
    [exc |-> "MissingCorpusException", message |-> MISSING_CORPUS_MESSAGE]

\* No exception raised.
NoException == [exc |-> None, message |-> ""]

\* ------------------------------------------------------------ the grammars
ConllExtractor_CFG ==
    (<<"NNP", "NNP">> :> "NNP") @@ (<<"NN", "NN">> :> "NNI") @@
    (<<"NNI", "NN">> :> "NNI") @@ (<<"JJ", "JJ">> :> "JJ") @@
    (<<"JJ", "NN">> :> "NNI")

INSIGNIFICANT_SUFFIXES == <<"DT", "CC", "PRP$", "PRP">>

FastNPExtractor_CFG ==
    (<<"NNP", "NNP">> :> "NNP") @@ (<<"NN", "NN">> :> "NNI") @@
    (<<"NNI", "NN">> :> "NNI") @@ (<<"JJ", "JJ">> :> "JJ") @@
    (<<"JJ", "NN">> :> "NNI")

\* ------------------------------------------------------ tag normalization
\* FastNPExtractor.normalize_tags
FastNPExtractor_normalize_tags(tagged_) ==
    [k \in 1..Len(tagged_) |->
        LET t == tagged_[k] IN
        IF t[2] = "NP-TL" \/ t[2] = "NP" THEN <<t[1], "NNP">>
        ELSE IF endswith(t[2], "-TL") THEN <<t[1], DropLast(t[2], 3)>>
        ELSE IF endswith(t[2], "S") THEN <<t[1], DropLast(t[2], 1)>>
        ELSE <<t[1], t[2]>>]

\* the module-level normalize_tags
normalize_tags(chunk) ==
    [k \in 1..Len(chunk) |->
        LET word == chunk[k][1]
            tag == chunk[k][2] IN
        IF tag = "NP-TL" \/ tag = "NP" THEN <<word, "NNP">>
        ELSE IF endswith(tag, "-TL") THEN <<word, DropLast(tag, 3)>>
        ELSE IF endswith(tag, "S") THEN <<word, DropLast(tag, 1)>>
        ELSE <<word, tag>>]

\* ------------------------------------------------- insignificance filter
\* A faulty filter_ok: the loop stops after the first two suffixes.
filter_ok_two_suffixes(tag, tag_suffixes) ==
    /\ ~endswith(tag, "DT")
    /\ ~endswith(tag, "CC")

\* Lines 255-259, the inner loop of filter_insignificant: ok for one tag.
RECURSIVE filter_ok(_, _)
filter_ok(tag, tag_suffixes) ==
    IF tag_suffixes = <<>> THEN TRUE
    ELSE IF endswith(tag, Head(tag_suffixes)) THEN FALSE
    ELSE filter_ok(tag, Tail(tag_suffixes))

RECURSIVE filter_insignificant(_, _)
filter_insignificant(chunk, tag_suffixes) ==
    IF chunk = <<>> THEN <<>>
    ELSE LET word == Head(chunk)[1]
             tag == Head(chunk)[2]
             good == filter_insignificant(Tail(chunk), tag_suffixes) IN
         IF filter_ok(tag, tag_suffixes) THEN <<(<<word, tag>>)>> \o good
         ELSE good

\* The default of filter_insignificant's tag_suffixes parameter.
filter_default_suffixes == <<"DT", "CC", "PRP$", "PRP">>

\* tree2str(tree, concat=' ')
tree2str(tree) == join(" ", [k \in 1..Len(tree) |-> tree[k][1]])

\* ------------------------------------------------------ one merge step
\* A faulty extract_match: the two texts in the wrong order.
extract_match_swapped(t1, t2) == t2[1] \o " " \o t1[1]

\* extract, line 187: match = '%s %s' % (t1[0], t2[0])
extract_match(t1, t2) == t1[1] \o " " \o t2[1]

\* A faulty extract_splice: the second tags.pop(x) is missing.
extract_splice_one_pop(tags_, x_, value) ==
    SubSeq(tags_, 1, x_)
        \o <<(<<extract_match(tags_[x_ + 1], tags_[x_ + 2]), value>>)>>
        \o SubSeq(tags_, x_ + 2, Len(tags_))

\* extract, lines 185-189: tags.pop(x); tags.pop(x); tags.insert(x, (match, pos))
extract_splice(tags_, x_, value) ==
    SubSeq(tags_, 1, x_)
        \o <<(<<extract_match(tags_[x_ + 1], tags_[x_ + 2]), value>>)>>
        \o SubSeq(tags_, x_ + 3, Len(tags_))

\* A faulty extract_matches: NNI is missing from the tags selected.
RECURSIVE extract_matches_nnp_only(_)
extract_matches_nnp_only(tags_) ==
    IF tags_ = <<>> THEN <<>>
    ELSE (IF Head(tags_)[2] = "NNP" THEN <<Head(tags_)[1]>> ELSE <<>>)
             \o extract_matches_nnp_only(Tail(tags_))

\* extract, line 192: matches = [t[0] for t in tags if t[1] in ['NNP', 'NNI']]
RECURSIVE extract_matches(_)
extract_matches(tags_) ==
    IF tags_ = <<>> THEN <<>>
    ELSE (IF Head(tags_)[2] \in {"NNP", "NNI"} THEN <<Head(tags_)[1]>> ELSE <<>>)
             \o extract_matches(Tail(tags_))

\* is_match, line 230: match = '{0} {0}'.format(first[0], second[0])
is_match_match(first, second) == first[1] \o " " \o first[1]

\* is_match, lines 228-232: copy.pop(i); copy.pop(i); copy.insert(i, (match, pos))
is_match_splice(copy_, i_, value) ==
    SubSeq(copy_, 1, i_)
        \o <<(<<is_match_match(copy_[i_ + 1], copy_[i_ + 2]), value>>)>>
        \o SubSeq(copy_, i_ + 3, Len(copy_))

\* is_match, line 234: any([t[1] in ('NNP', 'NNI') for t in copy])
is_match_any(copy_) == \E k \in 1..Len(copy_) : copy_[k][2] \in {"NNP", "NNI"}

\* is_match as a function of its arguments: the while loop run to its end
\* (the leftmost pair whose tags are a key of cfg is merged, then the scan
\* starts again), then the test of line 234.
RECURSIVE is_match_loop(_, _)
is_match_loop(copy_, cfg) ==
    LET hits == {k \in 0..(Len(copy_) - 2) :
                    Truthy(dict_get(cfg, <<copy_[k + 1][2], copy_[k + 2][2]>>, None))}
    IN  IF hits = {} THEN copy_
        ELSE LET k == CHOOSE h \in hits : \A g \in hits : h <= g IN
             is_match_loop(
                 is_match_splice(copy_, k,
                     dict_get(cfg, <<copy_[k + 1][2], copy_[k + 2][2]>>, None)),
                 cfg)

is_match(tagged_phrase, cfg) == is_match_any(is_match_loop(tagged_phrase, cfg))

\* ------------------------------------------------------------- training
\* A faulty FastNPExtractor.train: the LookupError is not caught.
FastNPExtractor_train_lookup_escapes(self, brown) ==
    IF ~brown
    THEN [raised |-> [exc |-> "LookupError", message |-> ""], self |-> self]
    ELSE [raised |-> NoException,
          self |-> [trained |-> TRUE, TAGGER |-> "BigramTagger"]]

\* FastNPExtractor.train: brown says whether the corpus provider finds the
\* Brown corpus.  The result is the exception raised (NoException: none) and
\* the instance afterwards.
FastNPExtractor_train(self, brown) ==
    IF ~brown
    THEN [raised |-> MissingCorpusException, self |-> self]
    ELSE [raised |-> NoException,
          self |-> [trained |-> TRUE, TAGGER |-> "BigramTagger"]]

\* ChunkParser.train: conll2000 says whether the corpus provider finds the
\* CoNLL-2000 corpus.
ChunkParser_train(self, conll2000) ==
    IF ~conll2000
    THEN [raised |-> MissingCorpusException, self |-> self]
    ELSE [raised |-> NoException,
          self |-> [trained |-> TRUE, tagger |-> "BigramTagger"]]

\* ----------------------------------------------------------------- inputs
Word(k) == "w" \o ToString(k)

\* The tagged sequences of n tokens over a tag set.
Tagged(n, tagset) ==
    {[k \in 1..n |-> <<Word(k), t[k]>>] : t \in [1..n -> tagset]}

\* Tags the Brown-trained tagger of FastNPExtractor gives.
BrownTags == {"NN", "NNS", "NNP", "NP", "NP-TL", "NPS", "NNS-TL", "JJ", "AT"}

\* Tags the PatternTagger of ConllExtractor gives (Penn Treebank).
PennTags == {"NN", "NNS", "NNP", "DT", "PRP$"}

NewYorkCity == <<(<<"New", "NNP">>), (<<"York", "NNP">>), (<<"City", "NN">>)>>

Dashboard ==
    <<(<<"beautiful", "JJ">>), (<<"new", "JJ">>), (<<"dashboard", "NN">>)>>

FastInputs ==
    UNION {Tagged(n, BrownTags) : n \in 0..MaxLen} \cup {NewYorkCity, Dashboard}

\* The children of a parsed sentence: a leaf (word, tag), or a Tree with a
\* node label and leaves.
Chunks == UNION {Tagged(n, PennTags) : n \in 1..MaxChunk}

Children ==
    {[tree |-> FALSE, node |-> None, leaves |-> c] : c \in Tagged(1, PennTags)}
    \cup {[tree |-> TRUE, node |-> "NP", leaves |-> c] : c \in Chunks}
    \cup {[tree |-> TRUE, node |-> "VP", leaves |-> c] : c \in Tagged(1, PennTags)}

NoChild == [tree |-> FALSE, node |-> None, leaves |-> <<>>]

NoOutcome == [op |-> None, kind |-> None, value |-> <<>>, raised |-> NoException]

Returned(op, value) ==
    [op |-> op, kind |-> "return", value |-> value, raised |-> NoException]

Raised(op, e) == [op |-> op, kind |-> "raise", value |-> <<>>, raised |-> e]

NoLookup == [corpus |-> None, found |-> FALSE]

\* ------------------------------------------------------------------- Init
Init ==
    /\ fast = [trained |-> FALSE, TAGGER |-> None]
    /\ parser = [trained |-> FALSE, tagger |-> None]
    /\ pc = "idle"
    /\ tagged = <<>>
    /\ tags = <<>>
    /\ x = 0
    /\ merge = FALSE
    /\ sents = 0
    /\ each = NoChild
    /\ copy = <<>>
    /\ i = 0
    /\ phrases = <<>>
    /\ noun_phrases = <<>>
    /\ outcome = NoOutcome
    /\ lookup = NoLookup
    /\ nkids = 0
    /\ merges = 0
    /\ passes = 0

\* ------------------------------------------------ FastNPExtractor.extract
\* A faulty start of extract: train is called whether trained or not.
FastNPExtractor_extract_always_trains ==
    /\ pc = "idle"
    /\ \E brown \in BOOLEAN, sentence \in FastInputs :
         LET t == FastNPExtractor_train(fast, brown) IN
         /\ lookup' = [corpus |-> "brown", found |-> brown]
         /\ fast' = t.self
         /\ IF t.raised /= NoException
            THEN /\ outcome' = Raised("FastNPExtractor.extract", t.raised)
                 /\ pc' = "done"
                 /\ UNCHANGED <<tagged, tags, merge>>
            ELSE /\ tagged' = sentence
                 /\ tags' = FastNPExtractor_normalize_tags(sentence)
                 /\ merge' = TRUE
                 /\ pc' = "f_while"
                 /\ UNCHANGED outcome
    /\ UNCHANGED <<parser, x, sents, each, copy, i, phrases,
                   noun_phrases, nkids, merges, passes>>

\* Lines 170-175: train on first use, tokenize, tag, normalize, merge = True.
\* The tagger's output and the corpus provider's answer are the inputs.
FastNPExtractor_extract ==
    /\ pc = "idle"
    /\ \E brown \in BOOLEAN, sentence \in FastInputs :
         LET t == IF ~fast.trained THEN FastNPExtractor_train(fast, brown)
                  ELSE [raised |-> NoException, self |-> fast] IN
         /\ lookup' = IF ~fast.trained
                      THEN [corpus |-> "brown", found |-> brown]
                      ELSE NoLookup
         /\ fast' = t.self
         /\ IF t.raised /= NoException
            THEN /\ outcome' = Raised("FastNPExtractor.extract", t.raised)
                 /\ pc' = "done"
                 /\ UNCHANGED <<tagged, tags, merge>>
            ELSE /\ tagged' = sentence
                 /\ tags' = FastNPExtractor_normalize_tags(sentence)
                 /\ merge' = TRUE
                 /\ pc' = "f_while"
                 /\ UNCHANGED outcome
    /\ UNCHANGED <<parser, x, sents, each, copy, i, phrases,
                   noun_phrases, nkids, merges, passes>>

\* Lines 176-178 and 192-193: the test of the while loop.  With merge set a
\* new scan begins at x = 0 (the range is empty when fewer than two elements
\* are left); with merge clear the loop is over and the matches are returned.
FastNPExtractor_extract_while ==
    /\ pc = "f_while"
    /\ IF merge
       THEN /\ merge' = FALSE
            /\ passes' = passes + 1
            /\ IF Len(tags) - 1 > 0
               THEN x' = 0 /\ pc' = "f_for"
               ELSE UNCHANGED <<x, pc>>
            /\ UNCHANGED outcome
       ELSE /\ outcome' = Returned("FastNPExtractor.extract", extract_matches(tags))
            /\ pc' = "done"
            /\ UNCHANGED <<merge, passes, x>>
    /\ lookup' = NoLookup
    /\ UNCHANGED <<fast, parser, tagged, tags, sents, each, copy, i,
                   phrases, noun_phrases, nkids, merges>>

\* A faulty turn of the for loop: a merge step leaves merge clear.
FastNPExtractor_extract_for_merge_unset ==
    /\ pc = "f_for"
    /\ LET t1 == tags[x + 1]
           t2 == tags[x + 2]
           key == <<t1[2], t2[2]>>
           value == dict_get(FastNPExtractor_CFG, key, "") IN
       IF Truthy(value)
       THEN /\ merge' = FALSE
            /\ tags' = extract_splice(tags, x, value)
            /\ merges' = merges + 1
            /\ pc' = "f_while"
            /\ UNCHANGED x
       ELSE /\ IF x + 1 < Len(tags) - 1
               THEN x' = x + 1 /\ UNCHANGED pc
               ELSE pc' = "f_while" /\ UNCHANGED x
            /\ UNCHANGED <<merge, tags, merges>>
    /\ lookup' = NoLookup
    /\ UNCHANGED <<fast, parser, tagged, sents, each, copy, i, phrases,
                   noun_phrases, outcome, nkids, passes>>

\* Lines 179-190: one turn of the for loop at index x.
FastNPExtractor_extract_for ==
    /\ pc = "f_for"
    /\ LET t1 == tags[x + 1]
           t2 == tags[x + 2]
           key == <<t1[2], t2[2]>>
           value == dict_get(FastNPExtractor_CFG, key, "") IN
       IF Truthy(value)
       THEN /\ merge' = TRUE
            /\ tags' = extract_splice(tags, x, value)
            /\ merges' = merges + 1
            /\ pc' = "f_while"
            /\ UNCHANGED x
       ELSE /\ IF x + 1 < Len(tags) - 1
               THEN x' = x + 1 /\ UNCHANGED pc
               ELSE pc' = "f_while" /\ UNCHANGED x
            /\ UNCHANGED <<merge, tags, merges>>
    /\ lookup' = NoLookup
    /\ UNCHANGED <<fast, parser, tagged, sents, each, copy, i, phrases,
                   noun_phrases, outcome, nkids, passes>>

\* ------------------------------------------------- ConllExtractor.extract
\* Lines 82-83: the text is split into sentences; noun_phrases = [].
ConllExtractor_extract ==
    /\ pc = "idle"
    /\ \E n \in 0..MaxSents : sents' = n
    /\ noun_phrases' = <<>>
    /\ pc' = "c_sentence"
    /\ lookup' = NoLookup
    /\ UNCHANGED <<fast, parser, tagged, tags, x, merge, each, copy, i,
                   phrases, outcome, nkids, merges, passes>>

\* Lines 84-85 (and 95): the next sentence is tagged and given to
\* ChunkParser.parse (lines 46-54), which trains on first use; with no
\* sentence left noun_phrases is returned.
ConllExtractor_extract_sentence ==
    /\ pc = "c_sentence"
    /\ IF sents = 0
       THEN /\ outcome' = Returned("ConllExtractor.extract", noun_phrases)
            /\ pc' = "done"
            /\ lookup' = NoLookup
            /\ UNCHANGED <<parser, sents, phrases>>
       ELSE \E conll2000 \in BOOLEAN :
              LET t == IF ~parser.trained THEN ChunkParser_train(parser, conll2000)
                       ELSE [raised |-> NoException, self |-> parser] IN
              /\ lookup' = IF ~parser.trained
                           THEN [corpus |-> "conll2000", found |-> conll2000]
                           ELSE NoLookup
              /\ parser' = t.self
              /\ IF t.raised /= NoException
                 THEN /\ outcome' = Raised("ConllExtractor.extract", t.raised)
                      /\ pc' = "done"
                      /\ UNCHANGED <<sents, phrases>>
                 ELSE /\ sents' = sents - 1
                      /\ phrases' = <<>>
                      /\ pc' = "c_child"
                      /\ UNCHANGED outcome
    /\ UNCHANGED <<fast, tagged, tags, x, merge, each, copy, i,
                   noun_phrases, nkids, merges, passes>>

\* Lines 88-92, for the next child of parsed: the conditions before is_match.
\* A child that is an NP tree with a significant token goes to is_match (line
\* 218: copy = list(tagged_phrase), merge = True); any other is dropped.  The
\* children of the tree are drawn as the iteration reaches them.
ConllExtractor_extract_child ==
    /\ pc = "c_child"
    /\ nkids < MaxChildren
    /\ \E child \in Children :
         IF /\ child.tree
            /\ child.node = "NP"
            /\ Len(filter_insignificant(child.leaves, filter_default_suffixes)) >= 1
         THEN /\ each' = child
              /\ copy' = child.leaves
              /\ merge' = TRUE
              /\ pc' = "m_while"
         ELSE UNCHANGED <<each, copy, merge, pc>>
    /\ nkids' = nkids + 1
    /\ lookup' = NoLookup
    /\ UNCHANGED <<fast, parser, tagged, tags, x, sents, i, phrases,
                   noun_phrases, outcome, merges, passes>>

\* Lines 93-94, after the last child: nps = [tree2str(phrase) ...];
\* noun_phrases.extend(nps).
ConllExtractor_extract_extend ==
    /\ pc = "c_child"
    /\ noun_phrases' =
           noun_phrases \o [k \in 1..Len(phrases) |-> tree2str(phrases[k])]
    /\ pc' = "c_sentence"
    /\ lookup' = NoLookup
    /\ UNCHANGED <<fast, parser, tagged, tags, x, merge, sents, each, copy, i,
                   phrases, outcome, nkids, merges, passes>>

\* --------------------------------------------------------------- is_match
\* Lines 220-222 and 234-235: the test of the while loop.  When the loop is
\* over is_match returns and the comprehension of lines 88-92 keeps
\* normalize_tags(filter_insignificant(each, INSIGNIFICANT_SUFFIXES)) if it
\* returned True; the locals of is_match and the child tested are done with.
is_match_while ==
    /\ pc = "m_while"
    /\ IF merge
       THEN /\ merge' = FALSE
            /\ passes' = passes + 1
            /\ IF Len(copy) - 1 > 0
               THEN i' = 0 /\ pc' = "m_for"
               ELSE UNCHANGED <<i, pc>>
            /\ UNCHANGED <<each, phrases, copy, merges>>
       ELSE /\ phrases' =
                 IF is_match_any(copy)
                 THEN Append(phrases,
                        normalize_tags(
                          filter_insignificant(each.leaves, INSIGNIFICANT_SUFFIXES)))
                 ELSE phrases
            /\ pc' = "c_child"
            /\ each' = NoChild
            /\ copy' = <<>>
            /\ i' = 0
            /\ merges' = 0
            /\ passes' = 0
            /\ UNCHANGED merge
    /\ lookup' = NoLookup
    /\ UNCHANGED <<fast, parser, tagged, tags, x, sents,
                   noun_phrases, outcome, nkids>>

\* Lines 223-233: one turn of the for loop at index i.
is_match_for ==
    /\ pc = "m_for"
    /\ LET first == copy[i + 1]
           second == copy[i + 2]
           key == <<first[2], second[2]>>
           value == dict_get(ConllExtractor_CFG, key, None) IN
       IF Truthy(value)
       THEN /\ merge' = TRUE
            /\ copy' = is_match_splice(copy, i, value)
            /\ merges' = merges + 1
            /\ pc' = "m_while"
            /\ UNCHANGED i
       ELSE /\ IF i + 1 < Len(copy) - 1
               THEN i' = i + 1 /\ UNCHANGED pc
               ELSE pc' = "m_while" /\ UNCHANGED i
            /\ UNCHANGED <<merge, copy, merges>>
    /\ lookup' = NoLookup
    /\ UNCHANGED <<fast, parser, tagged, tags, x, sents, each, phrases,
                   noun_phrases, outcome, nkids, passes>>

\* ------------------------------------------------------------ the caller
\* The call has ended (pc = "done"): the caller has its result or its
\* exception, the locals of the call are gone.  Only the instances live on.
call_ends ==
    /\ pc = "done"
    /\ pc' = "idle"
    /\ tagged' = <<>>
    /\ tags' = <<>>
    /\ x' = 0
    /\ merge' = FALSE
    /\ sents' = 0
    /\ each' = NoChild
    /\ copy' = <<>>
    /\ i' = 0
    /\ phrases' = <<>>
    /\ noun_phrases' = <<>>
    /\ outcome' = NoOutcome
    /\ lookup' = NoLookup
    /\ nkids' = 0
    /\ merges' = 0
    /\ passes' = 0
    /\ UNCHANGED <<fast, parser>>

\* ------------------------------------------------------------------- Next
Next ==
    \/ FastNPExtractor_extract
    \/ FastNPExtractor_extract_while
    \/ FastNPExtractor_extract_for
    \/ ConllExtractor_extract
    \/ ConllExtractor_extract_sentence
    \/ ConllExtractor_extract_child
    \/ ConllExtractor_extract_extend
    \/ is_match_while
    \/ is_match_for
    \/ call_ends

Spec == Init /\ [][Next]_vars

\* ================================================================= claims
\* Helpers of the statements below.
InExtractLoop == pc \in {"f_while", "f_for"}

InIsMatchLoop == pc \in {"m_while", "m_for"}

ReturnedFromFast ==
    /\ pc = "done"
    /\ outcome.op = "FastNPExtractor.extract"
    /\ outcome.kind = "return"

Texts(seq) == [k \in 1..Len(seq) |-> seq[k][1]]

\* The pair at list index k (elements k + 1 and k + 2) is a key of cfg.
IsKey(cfg, seq, k) == <<seq[k + 1][2], seq[k + 2][2]>> \in DOMAIN cfg

FixedPoint(cfg, seq) == \A k \in 0..(Len(seq) - 2) : ~IsKey(cfg, seq, k)

IsNounTag(t) == t[2] = "NNP" \/ t[2] = "NNI"

IsSignificant(t) ==
    \A suffix \in {"DT", "CC", "PRP$", "PRP"} : ~endswith(t[2], suffix)

\* C1: for an input of n >= 1 tokens the merge loop, in extract and in
\* is_match, makes at most n - 1 merge steps and so begins at most n scans,
\* each scan staying inside the list; every merge step shortens the list by
\* exactly one, so the list holds n - merges elements throughout.
C1_MergeLoopBounded ==
    /\ InExtractLoop =>
         /\ Len(tags) = Len(tagged) - merges
         /\ passes <= merges + 1
         /\ Len(tagged) >= 1 => merges <= Len(tagged) - 1 /\ passes <= Len(tagged)
         /\ pc = "f_for" => x >= 0 /\ x <= Len(tags) - 2
    /\ InIsMatchLoop =>
         /\ Len(copy) = Len(each.leaves) - merges
         /\ passes <= merges + 1
         /\ merges <= Len(each.leaves) - 1
         /\ passes <= Len(each.leaves)
         /\ pc = "m_for" => i >= 0 /\ i <= Len(copy) - 2

\* C1 witness: the loop of extract is over after n - 1 merges of n >= 3 tokens.
C1_Witness ==
    /\ pc = "f_while"
    /\ ~merge
    /\ Len(tagged) >= 3
    /\ merges = Len(tagged) - 1

\* C2 as stated: for the tokens New/NNP York/NNP City/NN the merge loop ends
\* with the single element ("New York City", NNP).
C2_SingleElement ==
    (ReturnedFromFast /\ tagged = NewYorkCity) =>
        tags = <<(<<"New York City", "NNP">>)>>

\* C2 as amended: for the tokens New/NNP York/NNP City/NN the merge loop of
\* extract ends with two elements, ("New York", NNP) then ("City", NN): the
\* grammar has no rule for the pair (NNP, NN).  extract returns ["New York"].
C2_TwoElements ==
    (ReturnedFromFast /\ tagged = NewYorkCity) =>
        /\ tags = <<(<<"New York", "NNP">>), (<<"City", "NN">>)>>
        /\ outcome.value = <<"New York">>

\* C2 witness: extract has returned for the tokens New York City.
C2_Witness == ReturnedFromFast /\ tagged = NewYorkCity

\* C3: what extract returns is the texts, in order, of exactly the elements
\* of the final list tagged NNP or NNI, the final list being one no merge
\* applies to; beautiful/JJ new/JJ dashboard/NN gives the one phrase
\* "beautiful new dashboard".
C3_ReturnsNounTagged ==
    ReturnedFromFast =>
        /\ FixedPoint(FastNPExtractor_CFG, tags)
        /\ outcome.value = Texts(SelectSeq(tags, IsNounTag))
        /\ tagged = Dashboard => outcome.value = <<"beautiful new dashboard">>

\* C3 witness: extract has returned the phrase of the dashboard example.
C3_Witness ==
    /\ ReturnedFromFast
    /\ tagged = Dashboard
    /\ tags = <<(<<"beautiful new dashboard", "NNI">>)>>

\* C4: when is_match has returned for an NP subtree, the subtree is kept
\* exactly if the merge engine, run over the subtree's significant tokens
\* with their tags normalized, leaves an element tagged NNP or NNI.
C4_KeptIffFilteredNormalizedMatch ==
    [][(pc = "m_while" /\ pc' = "c_child") =>
         ((Len(phrases') > Len(phrases)) <=>
            is_match(normalize_tags(
                       filter_insignificant(each.leaves, INSIGNIFICANT_SUFFIXES)),
                     ConllExtractor_CFG))]_vars

\* C5: normalizing a second time changes nothing, for the sequence extract
\* has tagged (FastNPExtractor.normalize_tags) and for the significant
\* tokens of the subtree under test (normalize_tags).
C5_NormalizeIdempotent ==
    /\ FastNPExtractor_normalize_tags(FastNPExtractor_normalize_tags(tagged))
           = FastNPExtractor_normalize_tags(tagged)
    /\ LET chunk == filter_insignificant(each.leaves, INSIGNIFICANT_SUFFIXES) IN
       normalize_tags(normalize_tags(chunk)) = normalize_tags(chunk)

\* C6: when the corpus provider does not find the corpus that train asks for,
\* the call has ended by raising MissingCorpusException with the fixed
\* message, nothing is returned, and the instance is still untrained.
C6_MissingCorpusRaised ==
    (lookup.corpus /= None /\ ~lookup.found) =>
        /\ pc = "done"
        /\ outcome.kind = "raise"
        /\ outcome.raised.exc = "MissingCorpusException"
        /\ outcome.raised.message = MISSING_CORPUS_MESSAGE
        /\ outcome.value = <<>>
        /\ lookup.corpus = "brown" =>
             /\ outcome.op = "FastNPExtractor.extract"
             /\ ~fast.trained /\ fast.TAGGER = None
        /\ lookup.corpus = "conll2000" =>
             /\ outcome.op = "ConllExtractor.extract"
             /\ ~parser.trained /\ parser.tagger = None

\* C6 witness: FastNPExtractor.extract has met a missing Brown corpus.
C6_Witness ==
    /\ lookup = [corpus |-> "brown", found |-> FALSE]
    /\ outcome.kind = "raise"

C8_LeftmostThenRestart ==
    [][/\ (pc = "f_for" /\ merges' = merges + 1) =>
            /\ IsKey(FastNPExtractor_CFG, tags, x)
            /\ \A k \in 0..(x - 1) : ~IsKey(FastNPExtractor_CFG, tags, k)
            /\ merge' /\ pc' = "f_while"
       /\ (pc = "f_for" /\ merges' = merges) =>
            ~IsKey(FastNPExtractor_CFG, tags, x)
       /\ (pc = "f_while" /\ pc' = "f_for") => x' = 0
       /\ (pc = "f_while" /\ pc' = "done") =>
            FixedPoint(FastNPExtractor_CFG, tags)
       /\ (pc = "m_for" /\ merges' = merges + 1) =>
            /\ IsKey(ConllExtractor_CFG, copy, i)
            /\ \A k \in 0..(i - 1) : ~IsKey(ConllExtractor_CFG, copy, k)
            /\ merge' /\ pc' = "m_while"
       /\ (pc = "m_for" /\ merges' = merges) =>
            ~IsKey(ConllExtractor_CFG, copy, i)
       /\ (pc = "m_while" /\ pc' = "m_for") => i' = 0
       /\ (pc = "m_while" /\ pc' = "c_child") =>
            FixedPoint(ConllExtractor_CFG, copy)
      ]_vars

\* C8 witness: extract has just merged the pair at index 1, the pair at
\* index 0 being no key.
C8_Witness ==
    /\ pc = "f_while"
    /\ merge
    /\ merges = 1
    /\ x = 1

\* C9: throughout both merge loops the texts of the list, joined by single
\* spaces, are the texts of the original tokens joined by single spaces.
C9_TextsPreserved ==
    /\ InExtractLoop => join(" ", Texts(tags)) = join(" ", Texts(tagged))
    /\ InIsMatchLoop => join(" ", Texts(copy)) = join(" ", Texts(each.leaves))

====
